---- MODULE Spec2Model ----
(***************************************************************************)
(* FAHMunge/fah.py: merging Folding@Home result fragments into an HDF5     *)
(* trajectory store (concatenate_core17, concatenate_core17_filenames,     *)
(* concatenate_ocore) and deriving the protein-only store (strip_water).   *)
(*                                                                         *)
(* A string is a sequence of one-character strings.  A store is a record   *)
(*   exists : the HDF5 file is on disk                                     *)
(*   top    : the topology (<<>> while unset), a sequence of atom numbers  *)
(*   frames : the frames written so far (no coordinates node while empty)  *)
(*   nodes  : the extra EArrays, a function from node name to the rows     *)
(***************************************************************************)
EXTENDS Integers, Sequences, FiniteSets, TLC

VARIABLES kind, avail, full, derived, run, sw, last, window,
          nfault, nremoved, sortIn, sortOut

vars == <<kind, avail, full, derived, run, sw, last, window,
          nfault, nremoved, sortIn, sortOut>>

(***************************************************************************)
(* Bounds of the model.                                                    *)
(***************************************************************************)
NumUnits == 2
MaxFrames == 2
MaxFaults == 1
MaxSortLen == 3
MaxMinFrames == 3
MaxRemovals == 1

\* Number of atoms of the all-atom system (an input of the program).
NAtoms == 3

\* tables.StringAtom(1024): the width of a ledger row.
AtomSize == 1024

PyVersions == {2, 3}
Writers == {1, 2}

(***************************************************************************)
(* Characters.  Ord gives the code point; IsDigit is "int(c) succeeds".    *)
(***************************************************************************)
DigitChars == <<"0", "1", "2", "3", "4", "5", "6", "7", "8", "9">>

CharCode ==
  [c \in {DigitChars[d] : d \in 1..10} |->
     47 + (CHOOSE d \in 1..10 : DigitChars[d] = c)]
  @@ ("-" :> 45) @@ ("." :> 46) @@ ("/" :> 47) @@ ("Z" :> 90) @@ ("a" :> 97)
  @@ ("b" :> 98) @@ ("c" :> 99) @@ ("e" :> 101) @@ ("l" :> 108)
  @@ ("r" :> 114) @@ ("s" :> 115) @@ ("t" :> 116) @@ ("u" :> 117)
  @@ ("z" :> 122)

Ord(c) == CharCode[c]

IsDigit(c) == Ord(c) >= 48 /\ Ord(c) <= 57

DigitVal(c) == Ord(c) - 48

Min(a, b) == IF a < b THEN a ELSE b

(***************************************************************************)
(* keynat: a key is a list whose elements are ints (a run of digits        *)
(* accumulated in base 10) or single characters.                           *)
(***************************************************************************)
IntElem(n) == [num |-> TRUE, v |-> n]
ChrElem(c) == [num |-> FALSE, v |-> Ord(c)]

\* One iteration of the loop "for c in string" on the list r.
keynatStep(r, c) ==
  IF IsDigit(c)
    THEN IF r # <<>> /\ r[Len(r)].num
           THEN [r EXCEPT ![Len(r)] = IntElem(r[Len(r)].v * 10 + DigitVal(c))]
           ELSE Append(r, IntElem(DigitVal(c)))
    ELSE Append(r, ChrElem(c))

RECURSIVE keynatLoop(_, _, _)
keynatLoop(r, string, i) ==
  IF i > Len(string) THEN r
  ELSE keynatLoop(keynatStep(r, string[i]), string, i + 1)

keynat(string) == keynatLoop(<<>>, string, 1)

(***************************************************************************)
(* Comparison of two keys (Python lists).  The lists are compared at the   *)
(* first position where they differ; a list that is a prefix of the other  *)
(* is the smaller.  An int and a str compare as int < str on Python 2 and  *)
(* raise TypeError on Python 3.                                            *)
(***************************************************************************)
ElemLess(x, y, v) ==
  CASE x.num /\ y.num -> IF x.v < y.v THEN "lt" ELSE "gt"
    [] ~x.num /\ ~y.num -> IF x.v < y.v THEN "lt" ELSE "gt"
    [] x.num /\ ~y.num -> IF v = 2 THEN "lt" ELSE "TypeError"
    [] ~x.num /\ y.num -> IF v = 2 THEN "gt" ELSE "TypeError"

RECURSIVE ListCmp(_, _, _, _)
ListCmp(a, b, i, v) ==
  CASE i > Len(a) /\ i > Len(b) -> "eq"
    [] i > Len(a) /\ i <= Len(b) -> "lt"
    [] i <= Len(a) /\ i > Len(b) -> "gt"
    [] OTHER -> IF a[i] = b[i] THEN ListCmp(a, b, i + 1, v)
                ELSE ElemLess(a[i], b[i], v)

\* int(value) on a string of decimal digits.
RECURSIVE IntOfLoop(_, _, _)
IntOfLoop(acc, string, i) ==
  IF i > Len(string) THEN acc
  ELSE IntOfLoop(acc * 10 + DigitVal(string[i]), string, i + 1)

\* The key function of concatenate_ocore: lambda value: int(value).
IntKey(value) == <<IntElem(IntOfLoop(0, value, 1))>>

(***************************************************************************)
(* sorted(items, key=...): a stable sort.  It raises TypeError when two of *)
(* the keys cannot be compared.                                            *)
(***************************************************************************)
\* Insert item x into the sorted list s of items, after the items whose
\* key is not greater; keys[i] is the key of item i.
RECURSIVE InsertByKey(_, _, _, _)
InsertByKey(x, s, keys, v) ==
  IF s = <<>> THEN <<x>>
  ELSE IF ListCmp(keys[x], keys[s[Len(s)]], 1, v) = "lt"
         THEN Append(InsertByKey(x, SubSeq(s, 1, Len(s) - 1), keys, v), s[Len(s)])
         ELSE Append(s, x)

RECURSIVE SortLoop(_, _, _)
SortLoop(keys, v, n) ==
  IF n = 0 THEN <<>>
  ELSE InsertByKey(n, SortLoop(keys, v, n - 1), keys, v)

Comparable(keys, v) ==
  \A i, j \in 1..Len(keys) : ListCmp(keys[i], keys[j], 1, v) # "TypeError"

\* sorted(items, key=...), where keys[i] is the key of items[i].
sorted(items, keys, v) ==
  LET order == SortLoop(keys, v, Len(items))
  IN IF Comparable(keys, v)
       THEN [ok |-> TRUE, list |-> [i \in 1..Len(items) |-> items[order[i]]]]
       ELSE [ok |-> FALSE, list |-> <<>>]

(***************************************************************************)
(* The source units.  Work unit n is the archive <path>/results-n.tar.bz2  *)
(* of a CLONE directory (Core17) or the frame directory <path>/n of a      *)
(* stream (OCore).  Its positions file holds NFrames(n) frames.            *)
(***************************************************************************)
UnitNums == 9..(8 + NumUnits)

NFrames(n) == (n % MaxFrames) + 1

RECURSIVE Digits(_)
Digits(n) ==
  IF n < 10 THEN <<DigitChars[n + 1]>>
  ELSE Digits(n \div 10) \o <<DigitChars[(n % 10) + 1]>>

\* The shape of the source: archives of a CLONE directory, merged by
\* concatenate_core17 or concatenate_core17_filenames, or the frame
\* directories of a stream, merged by concatenate_ocore.
Kinds == {"core17", "ocore"}

EntryPoints(k) ==
  IF k = "ocore" THEN {"concatenate_ocore"}
  ELSE {"concatenate_core17", "concatenate_core17_filenames"}

PathDir == <<"c">>

\* os.path.join(path, name)
PathJoin(path, name) == path \o <<"/">> \o name

\* The names that glob "results-*.tar.bz2" matches.
ArchiveName(n) ==
  <<"r", "e", "s", "u", "l", "t", "s", "-">> \o Digits(n)
    \o <<".", "t", "a", "r", ".", "b", "z", "2">>

\* The identifier under which unit n is processed and ledgered.
UnitId(k, n) ==
  IF k = "ocore" THEN PathJoin(PathDir, Digits(n))
  ELSE PathJoin(PathDir, ArchiveName(n))

\* All orders in which glob.glob / os.listdir may return the set S.
Listings(S) ==
  {s \in [1..Cardinality(S) -> S] : \A i, j \in 1..Cardinality(S) : s[i] = s[j] => i = j}

\* Lines 166-168, 221-223: glob, then sorted by keynat on the joined paths.
\* Lines 280-281: listdir, sorted by int on the bare names, then joined.
SortedUnits(k, listing, v) ==
  IF k = "ocore"
    THEN LET names == [i \in 1..Len(listing) |-> Digits(listing[i])]
             r == sorted(names, [i \in 1..Len(names) |-> IntKey(names[i])], v)
         IN [ok |-> r.ok,
             list |-> [i \in 1..Len(r.list) |-> PathJoin(PathDir, r.list[i])]]
    ELSE LET names == [i \in 1..Len(listing) |-> UnitId(k, listing[i])]
         IN sorted(names, [i \in 1..Len(names) |-> keynat(names[i])], v)

\* What listing and sorting the units S can give, over the orders of the
\* listing and the Python versions; tabulated once (combining it with the
\* empty function makes TLC keep the table instead of the expression).
SortedListings ==
  [k \in Kinds, S \in SUBSET UnitNums |->
     {SortedUnits(k, listing, v) : listing \in Listings(S), v \in PyVersions}]
  @@ [x \in {} |-> {}]

\* md.load of the unit's positions file: frame f of unit n, all atoms.
Frame(n, f) ==
  [xyz |-> [a \in 1..NAtoms |-> (n * 100) + (f * 10) + (a - 1)], time |-> f]

Block(n) == [f \in 1..NFrames(n) |-> Frame(n, f)]

LoadUnit(k, id) == Block(CHOOSE n \in UnitNums : UnitId(k, n) = id)

\* The topology passed as "top": the atoms 0 .. NAtoms-1.
Topology == [a \in 1..NAtoms |-> a - 1]

(***************************************************************************)
(* The store.                                                              *)
(***************************************************************************)
NoNodes == [x \in {} |-> <<>>]

NoStore == [exists |-> FALSE, top |-> <<>>, frames |-> <<>>, nodes |-> NoNodes]

\* The name of the EArray that a merge operation creates and appends to.
LedgerName(k) == IF k = "ocore" THEN "processed_folders" ELSE "processed_filenames"

HasNode(store, name) == name \in DOMAIN store.nodes

\* _create_earray(where='/', name=name, atom=StringAtom(1024), shape=(0,))
CreateEArray(store, name) ==
  [store EXCEPT !.nodes = [x \in (DOMAIN store.nodes) \cup {name} |->
                             IF x = name THEN <<>> ELSE store.nodes[x]]]

\* A row holds at most AtomSize characters of the identifier.
Row(id) == SubSeq(id, 1, Min(Len(id), AtomSize))

\* root.<name>.append(rows)
AppendRows(store, name, rows) ==
  [store EXCEPT !.nodes[name] = @ \o [i \in 1..Len(rows) |-> Row(rows[i])]]

\* filename in root.<name> on Python 3, where the rows are bytes and the
\* filename is a str: never equal.
ContainsStr(store, name, id) == FALSE

\* six.b(filename) == root.<name>[0]: only the first row is compared.
ContainsFirst(store, name, id) ==
  Len(store.nodes[name]) > 0 /\ store.nodes[name][1] = id

\* six.b(filename) in root.<name>
Contains(store, name, id) ==
  \E i \in 1..Len(store.nodes[name]) : store.nodes[name][i] = id

\* The frames are put in front of the ones in the store.
WriteFramesFront(store, frames) == [store EXCEPT !.frames = frames \o @]

\* trj_file.write(...) of the given frames
WriteFrames(store, frames) == [store EXCEPT !.frames = @ \o frames]

Ledger(store, name) == IF HasNode(store, name) THEN store.nodes[name] ELSE <<>>

(***************************************************************************)
(* Control state.  run[w] is the merge run of writer w, sw the strip_water *)
(* call; last is the outcome of the operation that ended most recently,    *)
(* with the stores as they were when it began (min is min_num_frames when  *)
(* the call ended at one of the guards that read it, else 0).  window remembers the run   *)
(* that was interrupted between a unit's last frame write and its ledger   *)
(* append.  nfault counts interruptions and loader failures, nremoved the  *)
(* times the operator deleted the all-atom store.  An operation is         *)
(* "resumed" when it starts right after the same operation, on the same    *)
(* inputs, was interrupted or (a merge run) failed.  last.unit is the unit *)
(* whose load raised the exception that ended the run, <<>> when the       *)
(* exception does not come from the load of a unit.  last.div tells that a *)
(* strip_water call has raised on the counts of the pair (lines 128-136)   *)
(* and the operator has not removed the all-atom store since; last.was is  *)
(* last.div as it was before the operation.                                *)
(***************************************************************************)
IdleRun ==
  [pc |-> "idle", files |-> <<>>, i |-> 1, trj |-> <<>>, j |-> 1,
   pre |-> NoStore, rerun |-> FALSE, resumed |-> FALSE]

IdleStrip ==
  [pc |-> "idle", key |-> "", nfp |-> 0, nlp |-> 0,
   preFull |-> NoStore, preDer |-> NoStore, resumed |-> FALSE]

\* The ValueErrors of lines 129, 132 and 136.
CountErrors == {"raise_frames", "raise_files", "raise_mismatch"}

Outcome(op, out, err, files, min, preFull, preDer, rerun) ==
  [op |-> op, out |-> out, err |-> err, files |-> files, min |-> min,
   preFull |-> preFull, preDer |-> preDer, rerun |-> rerun,
   resumed |-> FALSE, unit |-> <<>>,
   was |-> last.div,
   div |-> /\ op # "remove"
           /\ last.div \/ (op = "strip" /\ out = "raise" /\ err \in CountErrors)]

NoOutcome ==
  [op |-> "none", out |-> "none", err |-> "", files |-> <<>>, min |-> 0,
   preFull |-> NoStore, preDer |-> NoStore, rerun |-> FALSE,
   resumed |-> FALSE, unit |-> <<>>, was |-> FALSE, div |-> FALSE]

NoWindow == [id |-> <<>>, files |-> <<>>]

MergeOutcome(w, out, err) ==
  [Outcome("merge", out, err, run[w].files, 0, run[w].pre, derived, run[w].rerun)
     EXCEPT !.resumed = run[w].resumed]

StripOutcome(out, err) ==
  [Outcome("strip", out, err, <<>>, 0, sw.preFull, sw.preDer, FALSE)
     EXCEPT !.resumed = sw.resumed]

Quiet == sw.pc = "idle" /\ \A w \in Writers : run[w].pc = "idle"

Init ==
  /\ kind \in Kinds
  /\ avail = {}
  /\ full = NoStore
  /\ derived = NoStore
  /\ run = [w \in Writers |-> IdleRun]
  /\ sw = IdleStrip
  /\ last = NoOutcome
  /\ window = NoWindow
  /\ nfault = 0
  /\ nremoved = 0
  /\ sortIn = <<>>
  /\ sortOut = [done |-> FALSE, py |-> 0, ok |-> TRUE, list |-> <<>>]

\* A new work unit arrives in the source directory.
Discover ==
  /\ Quiet
  /\ \E n \in UnitNums \ avail : avail' = avail \cup {n}
  /\ UNCHANGED <<kind, full, derived, run, sw, last, window,
                 nfault, nremoved, sortIn, sortOut>>

(***************************************************************************)
(* concatenate_core17 / concatenate_core17_filenames / concatenate_ocore   *)
(***************************************************************************)
\* Lines 166-173, 221-229, 280-286: list and sort the units; return when
\* there are none, else open the output file in append mode.
MergeStart(w) ==
  /\ run[w].pc = "idle"
  /\ sw.pc = "idle"
  /\ \E r \in SortedListings[kind, avail] :
       LET begun == [IdleRun EXCEPT !.files = r.list, !.pre = full,
                       !.rerun = /\ last.op = "merge"
                                 /\ last.out = "return"
                                 /\ last.files = r.list,
                       !.resumed = /\ last.op = "merge"
                                   /\ last.out \in {"interrupt", "raise"}
                                   /\ last.files = r.list]
       IN IF ~r.ok
            THEN /\ last' = Outcome("merge", "raise", "TypeError", <<>>, 0,
                                    full, derived, FALSE)
                 /\ UNCHANGED <<run, full>>
            ELSE IF Len(r.list) <= 0
              THEN /\ last' = Outcome("merge", "return", "", r.list, 0,
                                      full, derived, begun.rerun)
                   /\ UNCHANGED <<run, full>>
              ELSE /\ run' = [run EXCEPT ![w] = [begun EXCEPT !.pc = "create"]]
                   /\ full' = [full EXCEPT !.exists = TRUE]
                   /\ UNCHANGED last
  /\ UNCHANGED <<kind, avail, derived, sw, window, nfault,
                 nremoved, sortIn, sortOut>>

\* Lines 175-176, 231-232, 288-289: create the ledger; NodeError when the
\* node exists, which skips the topology assignment too.
MergeCreate(w) ==
  /\ run[w].pc = "create"
  /\ IF HasNode(full, LedgerName(kind))
       THEN /\ run' = [run EXCEPT ![w].pc = "loop"]
            /\ UNCHANGED full
       ELSE /\ full' = CreateEArray(full, LedgerName(kind))
            /\ run' = [run EXCEPT ![w].pc = "settop"]
  /\ UNCHANGED <<kind, avail, derived, sw, last, window, nfault,
                 nremoved, sortIn, sortOut>>

\* Lines 177, 233, 290: trj_file.topology = top.topology
MergeSetTop(w) ==
  /\ run[w].pc = "settop"
  /\ full' = [full EXCEPT !.top = Topology]
  /\ run' = [run EXCEPT ![w].pc = "loop"]
  /\ UNCHANGED <<kind, avail, derived, sw, last, window, nfault,
                 nremoved, sortIn, sortOut>>

\* The "continue" is missing: a ledgered unit is processed again.
MergeCheckNoContinue(w) ==
  /\ run[w].pc = "loop"
  /\ run[w].i <= Len(run[w].files)
  /\ run' = [run EXCEPT ![w].pc = "load"]
  /\ UNCHANGED <<kind, avail, full, derived, sw, last, window, nfault,
                 nremoved, sortIn, sortOut>>

\* Lines 181-184, 238-241, 294-297: the next unit; skip it when ledgered.
MergeCheck(w) ==
  /\ run[w].pc = "loop"
  /\ run[w].i <= Len(run[w].files)
  /\ IF Contains(full, LedgerName(kind), run[w].files[run[w].i])
       THEN run' = [run EXCEPT ![w].i = @ + 1]
       ELSE run' = [run EXCEPT ![w].pc = "load"]
  /\ UNCHANGED <<kind, avail, full, derived, sw, last, window,
                 nfault, nremoved, sortIn, sortOut>>

\* The frames are loaded and the identifier is ledgered without the frames
\* being written.
MergeLoadNoWrite(w) ==
  /\ run[w].pc = "load"
  /\ run' = [run EXCEPT ![w].trj = LoadUnit(kind, run[w].files[run[w].i]),
                        ![w].j = 1, ![w].pc = "ledger"]
  /\ UNCHANGED <<kind, avail, full, derived, sw, last, window, nfault,
                 nremoved, sortIn, sortOut>>

\* Lines 185-189, 242-246, 298-300: extract and load the unit's frames.
MergeLoad(w) ==
  /\ run[w].pc = "load"
  /\ LET trj == LoadUnit(kind, run[w].files[run[w].i])
     IN run' = [run EXCEPT ![w].trj = trj, ![w].j = 1,
                           ![w].pc = IF Len(trj) = 0 THEN "ledger" ELSE "write"]
  /\ UNCHANGED <<kind, avail, full, derived, sw, last, window,
                 nfault, nremoved, sortIn, sortOut>>

\* The loader raises (a damaged archive or XTC).  concatenate_core17 and
\* concatenate_ocore let it propagate; concatenate_core17_filenames catches
\* RuntimeError and its handler (line 257) raises NameError on run, clone.
\* The two Core17 entry points differ in nothing else, so which of them
\* the run is shows here only.
LoaderErrors == {"RuntimeError", "IOError"}

MergeLoadFail(w) ==
  /\ run[w].pc = "load"
  /\ nfault < MaxFaults
  /\ nfault' = nfault + 1
  /\ \E entry \in EntryPoints(kind), err \in LoaderErrors :
       LET handled == entry = "concatenate_core17_filenames" /\ err = "RuntimeError"
       IN last' = [MergeOutcome(w, "raise", IF handled THEN "NameError" ELSE err)
                     EXCEPT !.unit = IF handled THEN <<>>
                                     ELSE run[w].files[run[w].i]]
  /\ run' = [run EXCEPT ![w] = IdleRun]
  /\ UNCHANGED <<kind, avail, full, derived, sw, window,
                 nremoved, sortIn, sortOut>>

\* Lines 191-192, 248-249, 302-303: one iteration of "for frame in trj".
MergeWrite(w) ==
  /\ run[w].pc = "write"
  /\ full' = WriteFrames(full, <<run[w].trj[run[w].j]>>)
  /\ run' = [run EXCEPT ![w].j = @ + 1,
                        ![w].pc = IF run[w].j = Len(run[w].trj)
                                    THEN "ledger" ELSE "write"]
  /\ UNCHANGED <<kind, avail, derived, sw, last, window, nfault,
                 nremoved, sortIn, sortOut>>

\* The ledger append names the first unit of the run, not the current one.
MergeLedgerFirst(w) ==
  /\ run[w].pc = "ledger"
  /\ full' = AppendRows(full, LedgerName(kind), <<run[w].files[1]>>)
  /\ run' = [run EXCEPT ![w].i = @ + 1, ![w].pc = "loop"]
  /\ UNCHANGED <<kind, avail, derived, sw, last, window, nfault,
                 nremoved, sortIn, sortOut>>

\* Lines 194, 251, 305: append the unit's identifier to the ledger.
MergeLedger(w) ==
  /\ run[w].pc = "ledger"
  /\ full' = AppendRows(full, LedgerName(kind), <<run[w].files[run[w].i]>>)
  /\ run' = [run EXCEPT ![w].i = @ + 1, ![w].pc = "loop"]
  /\ UNCHANGED <<kind, avail, derived, sw, last, window, nfault,
                 nremoved, sortIn, sortOut>>

\* The loop is exhausted: the operation returns.
MergeReturn(w) ==
  /\ run[w].pc = "loop"
  /\ run[w].i > Len(run[w].files)
  /\ last' = MergeOutcome(w, "return", "")
  /\ run' = [run EXCEPT ![w] = IdleRun]
  /\ UNCHANGED <<kind, avail, full, derived, sw, window, nfault,
                 nremoved, sortIn, sortOut>>

\* The process is interrupted (killed, KeyboardInterrupt) between two steps.
MergeInterrupt(w) ==
  /\ run[w].pc # "idle"
  /\ nfault < MaxFaults
  /\ nfault' = nfault + 1
  /\ last' = MergeOutcome(w, "interrupt", "")
  /\ window' = IF run[w].pc = "ledger"
                 THEN [id |-> run[w].files[run[w].i], files |-> run[w].files]
                 ELSE window
  /\ run' = [run EXCEPT ![w] = IdleRun]
  /\ UNCHANGED <<kind, avail, full, derived, sw, nremoved, sortIn, sortOut>>

Merge(w) ==
  \/ MergeStart(w)
  \/ MergeCreate(w)
  \/ MergeSetTop(w)
  \/ MergeCheck(w)
  \/ MergeLoad(w)
  \/ MergeLoadFail(w)
  \/ MergeWrite(w)
  \/ MergeLedger(w)
  \/ MergeReturn(w)
  \/ MergeInterrupt(w)

(***************************************************************************)
(* strip_water(allatom_filename, protein_filename, protein_atom_indices,   *)
(*             min_num_frames)                                             *)
(***************************************************************************)
\* Lines 100-105: the name of the ledger of the all-atom store.
LedgerKey(store) ==
  IF HasNode(store, "processed_filenames") THEN "processed_filenames"
  ELSE IF HasNode(store, "processed_directories") THEN "processed_directories"
  ELSE ""

\* The atoms to keep: the first and the last of the all-atom system.
protein_atom_indices == <<0, NAtoms - 1>>

\* topology.subset(protein_atom_indices)
Subset(top, idx) == [i \in 1..Len(idx) |-> top[idx[i] + 1]]

\* coordinates[:, :len(protein_atom_indices)]: the leading atoms.
ProjectLeading(frames, idx) ==
  [f \in 1..Len(frames) |->
     [xyz |-> [i \in 1..Len(idx) |-> frames[f].xyz[i]], time |-> frames[f].time]]

\* coordinates[:, protein_atom_indices], with time and cell carried over.
Project(frames, idx) ==
  [f \in 1..Len(frames) |->
     [xyz |-> [i \in 1..Len(idx) |-> frames[f].xyz[idx[i] + 1]],
      time |-> frames[f].time]]

\* The checks without the one of lines 134-136.
VerdictNoLockstep(n_frames_allatom, n_frames_protein, n_files_allatom, n_files_protein) ==
  IF n_frames_protein > n_frames_allatom THEN "raise_frames"
  ELSE IF n_files_protein > n_files_allatom THEN "raise_files"
  ELSE IF n_frames_protein = n_frames_allatom /\ n_files_allatom = n_files_protein
    THEN "skip_equal"
  ELSE "derive"

\* Lines 128-140: the checks on the four counts, in the order of the code.
Verdict(n_frames_allatom, n_frames_protein, n_files_allatom, n_files_protein) ==
  IF n_frames_protein > n_frames_allatom THEN "raise_frames"
  ELSE IF n_files_protein > n_files_allatom THEN "raise_files"
  ELSE IF n_frames_protein = n_frames_allatom \/ n_files_allatom = n_files_protein
    THEN IF ~(n_frames_protein = n_frames_allatom /\ n_files_allatom = n_files_protein)
           THEN "raise_mismatch"
           ELSE "skip_equal"
  ELSE "derive"

MinChoices == {1, MaxMinFrames}

\* Lines 88-107: the guards on the all-atom store, then the protein store
\* is opened in append mode.  len() of a store without a coordinates node
\* raises NoSuchNodeError (line 94; compare lines 116-119).
StripCall ==
  /\ Quiet
  /\ \E min \in MinChoices :
       LET resumed == last.op = "strip" /\ last.out = "interrupt"
           done(out, err) ==
             /\ last' = [Outcome("strip", out, err, <<>>, min, full, derived, FALSE)
                           EXCEPT !.resumed = resumed]
             /\ UNCHANGED <<sw, derived>>
       IN IF ~full.exists THEN done("skip_missing", "")
          ELSE IF full.frames = <<>> THEN done("raise", "NoSuchNodeError")
          ELSE IF Len(full.frames) < min THEN done("skip_min", "")
          ELSE IF LedgerKey(full) = "" THEN done("raise", "ValueError_nokey")
          ELSE /\ sw' = [IdleStrip EXCEPT !.pc = "create",
                           !.key = LedgerKey(full),
                           !.preFull = full, !.preDer = derived,
                           !.resumed = resumed]
               /\ derived' = [derived EXCEPT !.exists = TRUE]
               /\ UNCHANGED last
  /\ UNCHANGED <<kind, avail, full, run, window, nfault,
                 nremoved, sortIn, sortOut>>

\* Lines 109-110, 112-113: create the ledger of the protein store.
StripCreate ==
  /\ sw.pc = "create"
  /\ IF HasNode(derived, sw.key)
       THEN /\ sw' = [sw EXCEPT !.pc = "count"]
            /\ UNCHANGED derived
       ELSE /\ derived' = CreateEArray(derived, sw.key)
            /\ sw' = [sw EXCEPT !.pc = "settop"]
  /\ UNCHANGED <<kind, avail, full, run, last, window, nfault,
                 nremoved, sortIn, sortOut>>

\* Line 111: the topology getter returns None when the all-atom store has
\* no topology node, and None.subset raises AttributeError.
StripSetTop ==
  /\ sw.pc = "settop"
  /\ IF full.top = <<>>
       THEN /\ last' = StripOutcome("raise", "AttributeError")
            /\ sw' = IdleStrip
            /\ UNCHANGED derived
       ELSE /\ derived' = [derived EXCEPT !.top = Subset(full.top, protein_atom_indices)]
            /\ sw' = [sw EXCEPT !.pc = "count"]
            /\ UNCHANGED last
  /\ UNCHANGED <<kind, avail, full, run, window, nfault,
                 nremoved, sortIn, sortOut>>

\* Lines 115-140: read the counts and check them.
StripCheck ==
  /\ sw.pc = "count"
  /\ LET n_frames_allatom == Len(full.frames)
         n_frames_protein == Len(derived.frames)
         n_files_allatom == Len(full.nodes[sw.key])
         n_files_protein == Len(derived.nodes[sw.key])
         v == Verdict(n_frames_allatom, n_frames_protein,
                      n_files_allatom, n_files_protein)
     IN IF v = "derive"
          THEN /\ sw' = [sw EXCEPT !.pc = "write", !.nfp = n_frames_protein,
                                   !.nlp = n_files_protein]
               /\ UNCHANGED last
          ELSE /\ last' = IF v = "skip_equal" THEN StripOutcome(v, "")
                          ELSE StripOutcome("raise", v)
               /\ sw' = IdleStrip
  /\ UNCHANGED <<kind, avail, full, derived, run, window, nfault,
                 nremoved, sortIn, sortOut>>

\* The seek is missing: every frame of the all-atom store is written.
StripWriteNoSeek ==
  /\ sw.pc = "write"
  /\ derived' = WriteFrames(derived, Project(full.frames, protein_atom_indices))
  /\ sw' = [sw EXCEPT !.pc = "ledger"]
  /\ UNCHANGED <<kind, avail, full, run, last, window, nfault,
                 nremoved, sortIn, sortOut>>

\* The projected frames are written through the all-atom handle.
StripWriteAllatom ==
  /\ sw.pc = "write"
  /\ full' = WriteFrames(full,
               Project(SubSeq(full.frames, sw.nfp + 1, Len(full.frames)),
                       protein_atom_indices))
  /\ sw' = [sw EXCEPT !.pc = "ledger"]
  /\ UNCHANGED <<kind, avail, derived, run, last, window, nfault,
                 nremoved, sortIn, sortOut>>

\* Lines 142-144: seek past the frames already stripped, read the rest and
\* write their projection to the protein store.
StripWrite ==
  /\ sw.pc = "write"
  /\ derived' = WriteFrames(derived,
                  Project(SubSeq(full.frames, sw.nfp + 1, Len(full.frames)),
                          protein_atom_indices))
  /\ sw' = [sw EXCEPT !.pc = "ledger"]
  /\ UNCHANGED <<kind, avail, full, run, last, window, nfault,
                 nremoved, sortIn, sortOut>>

\* Lines 146-147: copy the ledger rows not yet in the protein store.
StripLedger ==
  /\ sw.pc = "ledger"
  /\ derived' = AppendRows(derived, sw.key,
                  SubSeq(full.nodes[sw.key], sw.nlp + 1, Len(full.nodes[sw.key])))
  /\ last' = StripOutcome("derived", "")
  /\ sw' = IdleStrip
  /\ UNCHANGED <<kind, avail, full, run, window, nfault,
                 nremoved, sortIn, sortOut>>

\* The call is interrupted between two steps.
StripInterrupt ==
  /\ sw.pc # "idle"
  /\ nfault < MaxFaults
  /\ nfault' = nfault + 1
  /\ last' = StripOutcome("interrupt", "")
  /\ sw' = IdleStrip
  /\ UNCHANGED <<kind, avail, full, derived, run, window,
                 nremoved, sortIn, sortOut>>

Strip ==
  \/ StripCall
  \/ StripCreate
  \/ StripSetTop
  \/ StripCheck
  \/ StripWrite
  \/ StripLedger
  \/ StripInterrupt

(***************************************************************************)
(* One process runs the operations one after the other.                    *)
(***************************************************************************)
Next == Discover \/ Merge(1) \/ Strip

Spec == Init /\ [][Next]_vars

(***************************************************************************)
(* The same, with an operator who may delete the all-atom store between    *)
(* two operations (to merge it again from scratch).                        *)
(***************************************************************************)
RemoveFull ==
  /\ Quiet
  /\ full.exists
  /\ nremoved < MaxRemovals
  /\ nremoved' = nremoved + 1
  /\ full' = NoStore
  /\ last' = Outcome("remove", "done", "", <<>>, 0, full, derived, FALSE)
  /\ UNCHANGED <<kind, avail, derived, run, sw, window, nfault,
                 sortIn, sortOut>>

NextOperator == Next \/ RemoveFull

SpecOperator == Init /\ [][NextOperator]_vars

(***************************************************************************)
(* Two processes run merge operations on the same output file at the same  *)
(* time; nothing in the code makes one wait for the other.  Every          *)
(* statement acts on the file as the other process left it.                *)
(***************************************************************************)
NextConcurrent == Discover \/ Merge(1) \/ Merge(2)

SpecConcurrent == Init /\ [][NextConcurrent]_vars

(***************************************************************************)
(* sorted(items, key=keynat) on its own: the inputs are the lists of at    *)
(* most MaxSortLen names of SortPool, and the two lists of the             *)
(* documentation.                                                          *)
(***************************************************************************)
SortPool ==
  {<<"1">>, <<"9">>, <<"1", "0">>, <<"Z">>, <<"a">>, <<"a", "9">>,
   <<"a", "1", "0">>, <<"a", "2", "b">>}

ResultsName(n) == <<"r", "e", "s", "u", "l", "t", "s", "-">> \o Digits(n)

ResultsItems == <<ResultsName(1), ResultsName(9), ResultsName(10), ResultsName(2)>>

DocItems == <<<<"Z">>, <<"a">>, <<"1", "0">>, <<"1">>, <<"9">>>>

SortInputs ==
  UNION {[1..n -> SortPool] : n \in 0..MaxSortLen} \cup {ResultsItems, DocItems}

InitSort ==
  /\ kind = "core17"
  /\ avail = {}
  /\ full = NoStore
  /\ derived = NoStore
  /\ run = [w \in Writers |-> IdleRun]
  /\ sw = IdleStrip
  /\ last = NoOutcome
  /\ window = NoWindow
  /\ nfault = 0
  /\ nremoved = 0
  /\ sortIn \in SortInputs
  /\ sortOut = [done |-> FALSE, py |-> 0, ok |-> TRUE, list |-> <<>>]

\* sorted(sortIn, key=keynat) under Python 2 or 3.
SortApply ==
  /\ ~sortOut.done
  /\ \E v \in PyVersions :
       LET r == sorted(sortIn, [i \in 1..Len(sortIn) |-> keynat(sortIn[i])], v)
       IN sortOut' = [done |-> TRUE, py |-> v, ok |-> r.ok, list |-> r.list]
  /\ UNCHANGED <<kind, avail, full, derived, run, sw, last, window, nfault,
                 nremoved, sortIn>>

NextSort == SortApply

SpecSort == InitSort /\ [][NextSort]_vars

(***************************************************************************)
(* Properties.                                                             *)
(***************************************************************************)
\* No operation is in progress and the last one to end was op: the stores
\* are as that operation left them.
AtEnd(op) == Quiet /\ last.op = op

FullLedger == Ledger(full, LedgerName(kind))

DerivedLedger == Ledger(derived, LedgerName(kind))

RECURSIVE Blocks(_)
Blocks(ids) ==
  IF ids = <<>> THEN <<>>
  ELSE LoadUnit(kind, Head(ids)) \o Blocks(Tail(ids))

RECURSIVE Without(_, _)
Without(ids, rows) ==
  IF ids = <<>> THEN <<>>
  ELSE IF \E i \in 1..Len(rows) : rows[i] = Head(ids)
         THEN Without(Tail(ids), rows)
         ELSE <<Head(ids)>> \o Without(Tail(ids), rows)

Occurrences(seq, x) == Cardinality({i \in 1..Len(seq) : seq[i] = x})

HasBlock(frames, blk) ==
  \E p \in 0..(Len(frames) - Len(blk)) : SubSeq(frames, p + 1, p + Len(blk)) = blk

IsSuffix(blk, frames) ==
  /\ Len(blk) <= Len(frames)
  /\ SubSeq(frames, Len(frames) - Len(blk) + 1, Len(frames)) = blk

\* C1. Idempotence of merge: a merge run that returns right after a merge
\* run on the same sorted units returned leaves the frames and the ledger
\* of the store as the first run left them.
C1_MergeIdempotent ==
  (AtEnd("merge") /\ last.out = "return" /\ last.rerun)
    => /\ full.frames = last.preFull.frames
       /\ FullLedger = Ledger(last.preFull, LedgerName(kind))

C1_Witness ==
  /\ AtEnd("merge")
  /\ last.out = "return"
  /\ last.rerun
  /\ Len(last.files) = NumUnits
  /\ Len(full.frames) > 0

\* C2. Merge postcondition: when a merge run returns on a store whose
\* ledger was L, the frames are the previous frames followed by the blocks
\* of the units not in L, in input order, the ledger is L followed by the
\* identifiers of those units, every input unit is ledgered, and from an
\* empty store the frame count is the sum of the units' frame counts.
C2_MergePostcondition ==
  (AtEnd("merge") /\ last.out = "return")
    => LET L == Ledger(last.preFull, LedgerName(kind))
           fresh == Without(last.files, L)
       IN /\ full.frames = last.preFull.frames \o Blocks(fresh)
          /\ FullLedger = L \o fresh
          /\ \A i \in 1..Len(last.files) :
               \E j \in 1..Len(FullLedger) : FullLedger[j] = last.files[i]
          /\ (last.preFull.frames = <<>> /\ L = <<>>)
               => Len(full.frames) = Len(Blocks(last.files))

\* A resumed run: the store held a ledgered unit and the run added another.
C2_Witness ==
  /\ AtEnd("merge")
  /\ last.out = "return"
  /\ Ledger(last.preFull, LedgerName(kind)) # <<>>
  /\ Len(FullLedger) > Len(Ledger(last.preFull, LedgerName(kind)))
  /\ Len(full.frames) > Len(last.preFull.frames)

\* C3. Frames before ledger: in every state, interrupted and failed runs
\* included, each ledgered identifier has its whole frame block in the
\* store; and a step that changes the ledger appends one identifier, that
\* of the unit whose block was just written and ends the frame sequence.
C3_FramesBeforeLedger ==
  /\ [](\A i \in 1..Len(FullLedger) :
          HasBlock(full.frames, LoadUnit(kind, FullLedger[i])))
  /\ [][FullLedger' # FullLedger
          => /\ run[1].pc = "ledger"
             /\ FullLedger' = Append(FullLedger, run[1].files[run[1].i])
             /\ full'.frames = full.frames
             /\ IsSuffix(LoadUnit(kind, run[1].files[run[1].i]), full.frames)]_vars

\* A run was interrupted with a unit's frames written and not ledgered,
\* after another unit was merged.
C3_Witness ==
  /\ Quiet
  /\ last.out = "interrupt"
  /\ FullLedger # <<>>
  /\ Len(full.frames) > Len(Blocks(FullLedger))

StripReturned(outs) == AtEnd("strip") /\ last.out \in outs

SameCounts ==
  /\ Len(derived.frames) = Len(full.frames)
  /\ Len(DerivedLedger) = Len(FullLedger)

\* C4 as stated. Lockstep after derivation: whenever a strip_water call
\* returns without raising, its no-op returns for a missing all-atom store
\* and for fewer than min_num_frames frames included, the derived store has
\* as many frames and as many ledger entries as the full store.
C4_LockstepAfterEveryReturn ==
  StripReturned({"skip_missing", "skip_min", "skip_equal", "derived"}) => SameCounts

\* C4 as amended: the same, the no-op return for fewer than min_num_frames
\* frames excepted.
C4_LockstepAfterDerivation ==
  StripReturned({"skip_missing", "skip_equal", "derived"}) => SameCounts

\* A second derivation, after the full store grew.
C4_Witness ==
  /\ StripReturned({"derived"})
  /\ last.preDer.frames # <<>>
  /\ Len(full.frames) > Len(last.preDer.frames)

Diverged(f, d) ==
  LET nfa == Len(f.frames)
      nfp == Len(d.frames)
      nla == Len(Ledger(f, LedgerName(kind)))
      nlp == Len(Ledger(d, LedgerName(kind)))
  IN \/ nfp > nfa
     \/ nlp > nla
     \/ (nfp = nfa) # (nlp = nla)

CalledOnDiverged ==
  /\ AtEnd("strip")
  /\ last.out # "interrupt"
  /\ Diverged(last.preFull, last.preDer)

SameContent(store, before) ==
  /\ store.frames = before.frames
  /\ Ledger(store, LedgerName(kind)) = Ledger(before, LedgerName(kind))

Restricted(frames, idx) ==
  [f \in 1..Len(frames) |->
     [xyz |-> [i \in 1..Len(idx) |-> frames[f].xyz[idx[i] + 1]],
      time |-> frames[f].time]]

\* C6. Derived content: the ledger of the derived store is made of the
\* entries of the full store's ledger, verbatim and in order, and its frames
\* are the frames of the full store, in order, restricted to the atom
\* indices (as wide as there are indices); a call that derives brings both
\* up to the full store by appending the frames from offset
\* derivedFrameCount and the entries from offset derivedUnitCount.
C6_DerivedContent ==
  LET n == Len(derived.frames)
      m == Len(DerivedLedger)
      n0 == Len(last.preDer.frames)
      m0 == Len(Ledger(last.preDer, LedgerName(kind)))
  IN /\ n <= Len(full.frames)
     /\ derived.frames = Restricted(SubSeq(full.frames, 1, n), protein_atom_indices)
     /\ \A f \in 1..n : Len(derived.frames[f].xyz) = Len(protein_atom_indices)
     /\ m <= Len(FullLedger)
     /\ DerivedLedger = SubSeq(FullLedger, 1, m)
     /\ StripReturned({"derived"})
          => /\ n = Len(full.frames)
             /\ m = Len(FullLedger)
             /\ derived.frames = last.preDer.frames
                  \o Restricted(SubSeq(full.frames, n0 + 1, Len(full.frames)),
                                protein_atom_indices)
             /\ DerivedLedger = Ledger(last.preDer, LedgerName(kind))
                  \o SubSeq(FullLedger, m0 + 1, Len(FullLedger))

\* An incremental derivation that appended one ledger entry.
C6_Witness ==
  /\ StripReturned({"derived"})
  /\ Len(last.preDer.frames) > 0
  /\ Len(DerivedLedger) = Len(Ledger(last.preDer, LedgerName(kind))) + 1
  /\ Len(DerivedLedger) = NumUnits

(***************************************************************************)
(* The natural order as the claim words it: a name is cut into its maximal *)
(* runs of digits and of other characters; the runs are compared one by    *)
(* one, two digit runs by their integer value, two other runs character by *)
(* character, a digit run before a run of other characters; a name whose   *)
(* runs are a strict prefix of another's comes first.                      *)
(***************************************************************************)
RECURSIVE RunEnd(_, _)
RunEnd(name, i) ==
  IF i < Len(name) /\ IsDigit(name[i + 1]) = IsDigit(name[i])
    THEN RunEnd(name, i + 1)
    ELSE i

RECURSIVE Runs(_, _)
Runs(name, i) ==
  IF i > Len(name) THEN <<>>
  ELSE <<SubSeq(name, i, RunEnd(name, i))>> \o Runs(name, RunEnd(name, i) + 1)

IsNumber(r) == IsDigit(r[1])

RECURSIVE CharsBefore(_, _, _)
CharsBefore(a, b, i) ==
  CASE i > Len(a) /\ i > Len(b) -> "eq"
    [] i > Len(a) /\ i <= Len(b) -> "lt"
    [] i <= Len(a) /\ i > Len(b) -> "gt"
    [] OTHER -> IF Ord(a[i]) = Ord(b[i]) THEN CharsBefore(a, b, i + 1)
                ELSE IF Ord(a[i]) < Ord(b[i]) THEN "lt" ELSE "gt"

RunBefore(a, b) ==
  CASE IsNumber(a) /\ IsNumber(b) ->
         IF IntOfLoop(0, a, 1) = IntOfLoop(0, b, 1) THEN "eq"
         ELSE IF IntOfLoop(0, a, 1) < IntOfLoop(0, b, 1) THEN "lt" ELSE "gt"
    [] IsNumber(a) /\ ~IsNumber(b) -> "lt"
    [] ~IsNumber(a) /\ IsNumber(b) -> "gt"
    [] OTHER -> CharsBefore(a, b, 1)

RECURSIVE RunsBefore(_, _, _)
RunsBefore(a, b, i) ==
  CASE i > Len(a) /\ i > Len(b) -> "eq"
    [] i > Len(a) /\ i <= Len(b) -> "lt"
    [] i <= Len(a) /\ i > Len(b) -> "gt"
    [] OTHER -> IF RunBefore(a[i], b[i]) = "eq" THEN RunsBefore(a, b, i + 1)
                ELSE RunBefore(a[i], b[i])

NaturalLeq(x, y) == RunsBefore(Runs(x, 1), Runs(y, 1), 1) # "gt"

InNaturalOrder(list) ==
  \A i, j \in 1..Len(list) : i < j => NaturalLeq(list[i], list[j])

SameItems(a, b) ==
  /\ Len(a) = Len(b)
  /\ \A x \in {a[i] : i \in 1..Len(a)} : Occurrences(a, x) = Occurrences(b, x)

ResultsSorted ==
  <<ResultsName(1), ResultsName(2), ResultsName(9), ResultsName(10)>>

DocSorted == <<<<"1">>, <<"9">>, <<"1", "0">>, <<"Z">>, <<"a">>>>

\* C7. Natural order: sorted(items, key=keynat) returns the items with
\* digit runs compared by integer value, other runs by character sequence
\* and a strict prefix first; the results-N list of the specification comes
\* out as results-1, results-2, results-9, results-10 and the list of the
\* docstring ('Z', 'a', '10', '1', '9') as ['1', '9', '10', 'Z', 'a'].
C7_NaturalOrder ==
  sortOut.done
    => /\ sortOut.ok
       /\ SameItems(sortOut.list, sortIn)
       /\ InNaturalOrder(sortOut.list)
       /\ sortIn = ResultsItems => sortOut.list = ResultsSorted
       /\ sortIn = DocItems => sortOut.list = DocSorted

\* What holds of the sort: under Python 2 it is the natural order on every
\* list, and under Python 3 it is on every list it does not raise on.
NaturalOrderWhenComparable ==
  sortOut.done
    => /\ sortOut.py = 2 => sortOut.ok
       /\ sortOut.ok
            => /\ SameItems(sortOut.list, sortIn)
               /\ InNaturalOrder(sortOut.list)
               /\ sortIn = ResultsItems => sortOut.list = ResultsSorted
               /\ sortIn = DocItems => sortOut.list = DocSorted

\* C8. No-op guards of derivation: when the all-atom store does not exist
\* or holds fewer than min_num_frames frames, strip_water returns without
\* raising and leaves the derived store as it was (not created, not
\* initialised, not appended to).
C8_NoOpGuards ==
  (/\ AtEnd("strip")
   /\ last.out # "interrupt"
   /\ \/ ~last.preFull.exists
      \/ Len(last.preFull.frames) < last.min)
    => /\ last.out \in {"skip_missing", "skip_min"}
       /\ derived = last.preDer

\* C9. The full store is read-only for derivation: no step of strip_water,
\* on any of its paths, changes the all-atom store.
C9_FullReadOnly ==
  [][(sw' # sw \/ (last' # last /\ last'.op = "strip")) => full' = full]_vars

\* A derivation from scratch has returned: the derived store was written,
\* the full store is as before the call.
C9_Witness ==
  /\ StripReturned({"derived"})
  /\ last.preDer.frames = <<>>
  /\ derived.frames # <<>>
  /\ full = last.preFull

\* C10. Crash window: when the only fault so far is one interruption of a
\* merge run between the last frame write and the ledger append of unit u,
\* and a merge run on the same units then returns, the store holds each
\* frame of u twice, each frame of every other unit once, and the ledger
\* each identifier once.
C10_CrashWindowDuplicate ==
  (/\ AtEnd("merge")
   /\ last.out = "return"
   /\ nfault = 1
   /\ window.id # <<>>
   /\ last.files = window.files)
    => \A i \in 1..Len(last.files) :
         LET id == last.files[i]
             blk == LoadUnit(kind, id)
         IN /\ \A f \in 1..Len(blk) :
                 Occurrences(full.frames, blk[f]) = IF id = window.id THEN 2 ELSE 1
            /\ Occurrences(FullLedger, id) = 1

\* The run after the crash returned, with another unit merged as well.
C10_Witness ==
  /\ AtEnd("merge")
  /\ last.out = "return"
  /\ nfault = 1
  /\ window.id # <<>>
  /\ last.files = window.files
  /\ Len(last.files) = NumUnits
  /\ Len(full.frames) = Len(Blocks(last.files)) + Len(LoadUnit(kind, window.id))

(***************************************************************************)
(* Resumption, atomicity and divergence.                                   *)
(***************************************************************************)
NormalReturns == {"return", "skip_missing", "skip_min", "skip_equal", "derived"}

\* The operation ended because the load of a unit failed.
LoaderFailed ==
  last.op = "merge" /\ last.out = "raise" /\ last.err \in LoaderErrors \cup {"NameError"}

\* C11. Resumable after failure: the operation that runs right after the
\* same operation on the same inputs was interrupted or failed, and that is
\* not itself interrupted or stopped by a failing loader, returns normally;
\* a strip_water call after a call that was interrupted between writing the
\* projected frames and copying the ledger rows does not raise.
C11_ResumableAfterFailure ==
  (Quiet /\ last.resumed /\ last.out # "interrupt" /\ ~LoaderFailed)
    => last.out \in NormalReturns

\* The frames are whole frame blocks of units, one after the other.
RECURSIVE WholeBlocks(_)
WholeBlocks(frames) ==
  \/ frames = <<>>
  \/ \E n \in UnitNums :
       /\ Len(Block(n)) <= Len(frames)
       /\ SubSeq(frames, 1, Len(Block(n))) = Block(n)
       /\ WholeBlocks(SubSeq(frames, Len(Block(n)) + 1, Len(frames)))

\* C12. Frame block atomicity: whenever no operation is in progress, after
\* an interruption too, the frames of the store are whole frame blocks; no
\* state has only some of the frames of a unit.
C12_FrameBlockAtomic ==
  Quiet => WholeBlocks(full.frames)

\* C13. Divergence is unrecoverable: once a strip_water call has raised on
\* the counts of the pair, every later call that reaches the checks on the
\* counts raises, whatever merge runs happened in between; the pair is not
\* derived from again.
C13_DivergenceUnrecoverable ==
  (AtEnd("strip") /\ last.was /\ last.out \notin {"interrupt", "skip_missing", "skip_min"})
    => last.out = "raise"

(***************************************************************************)
(* The ledger across runs.                                                 *)
(***************************************************************************)
\* C14. Ledger order follows natural order across runs: after completed
\* merge runs only, with units discovered between the runs, the ledger
\* lists its identifiers in natural (keynat) order.
C14_LedgerNaturalOrder ==
  (AtEnd("merge") /\ last.out = "return" /\ nfault = 0)
    => InNaturalOrder(FullLedger)

NoDuplicates(seq) == \A i, j \in 1..Len(seq) : seq[i] = seq[j] => i = j

\* The step completes the merge of a unit: the run leaves line 194 (251,
\* 305) for the next iteration.
CompletesUnit(w) == run[w].pc = "ledger" /\ run'[w].pc = "loop"

\* C15. Ledger-unit pairing: with a single writer, whatever runs were
\* made (returned, failed or interrupted), the ledger holds no identifier
\* twice, and it grows by one row exactly in the steps that complete the
\* merge of a unit, a unit that was not ledgered before; so its length is
\* the number of distinct units whose merge completed.
C15_LedgerUnitPairing ==
  /\ []NoDuplicates(FullLedger)
  /\ [][/\ Len(FullLedger') = Len(FullLedger) + (IF CompletesUnit(1) THEN 1 ELSE 0)
        /\ CompletesUnit(1)
             => ~\E i \in 1..Len(FullLedger) :
                   FullLedger[i] = run[1].files[run[1].i]]_vars

\* A run that resumed on a store with a ledgered unit, after a fault,
\* returned with every unit ledgered.
C15_Witness ==
  /\ AtEnd("merge")
  /\ last.out = "return"
  /\ nfault > 0
  /\ Ledger(last.preFull, LedgerName(kind)) # <<>>
  /\ Len(FullLedger) = NumUnits
  /\ Len(FullLedger) > Len(Ledger(last.preFull, LedgerName(kind)))

IsPrefix(a, b) == Len(a) <= Len(b) /\ SubSeq(b, 1, Len(a)) = a

\* C16. Append-only stores: every step of a merge run or of a strip_water
\* call leaves the frames and the ledger of each store as they were or
\* extends them at the end; no frame or row is removed, moved or rewritten.
C16_AppendOnly ==
  [][/\ IsPrefix(full.frames, full'.frames)
     /\ IsPrefix(FullLedger, FullLedger')
     /\ IsPrefix(derived.frames, derived'.frames)
     /\ IsPrefix(DerivedLedger, DerivedLedger')]_vars

\* strip_water has appended new frames to a protein store that held frames
\* of an earlier derivation, while the full store holds two units.
C16_Witness ==
  /\ sw.pc = "ledger"
  /\ sw.nfp > 0
  /\ Len(derived.frames) > sw.nfp
  /\ Len(FullLedger) >= 2

(***************************************************************************)
(* Loader failure.                                                         *)
(***************************************************************************)
\* The unit at which a run that a failing loader ended stopped: the first
\* unit of the run that is not ledgered.
FailedUnit == Head(Without(last.files, FullLedger))

\* The units of the run before the failed one.
UnitsBefore(u) ==
  SubSeq(last.files, 1, (CHOOSE i \in 1..Len(last.files) : last.files[i] = u) - 1)

\* C17. Loader failure: a run that the failing load of unit u ends raises
\* an error that comes from the load of u; the store then holds what it
\* held before the run followed by the blocks and rows of the units merged
\* earlier in the run, nothing of u and nothing of a later unit; and the
\* run that follows on the same units, once it returns, has merged them
\* all.  This for the three entry points.
C17_LoaderFailure ==
  /\ (AtEnd("merge") /\ LoaderFailed)
       => LET before == Ledger(last.preFull, LedgerName(kind))
              merged == Without(UnitsBefore(FailedUnit), before)
          IN /\ last.unit = FailedUnit
             /\ FullLedger = before \o merged
             /\ full.frames = last.preFull.frames \o Blocks(merged)
  /\ (AtEnd("merge") /\ last.out = "return" /\ last.resumed)
       => \A i \in 1..Len(last.files) :
            /\ Occurrences(FullLedger, last.files[i]) = 1
            /\ HasBlock(full.frames, LoadUnit(kind, last.files[i]))

\* What holds of a failing loader: the same, except that the error need
\* not come from the load of the unit.
LoaderFailureKeepsStore ==
  /\ (AtEnd("merge") /\ LoaderFailed)
       => LET before == Ledger(last.preFull, LedgerName(kind))
              merged == Without(UnitsBefore(FailedUnit), before)
          IN /\ last.unit \in {FailedUnit, <<>>}
             /\ last.unit = <<>> => last.err = "NameError"
             /\ FullLedger = before \o merged
             /\ full.frames = last.preFull.frames \o Blocks(merged)
  /\ (AtEnd("merge") /\ last.out = "return" /\ last.resumed)
       => \A i \in 1..Len(last.files) :
            /\ Occurrences(FullLedger, last.files[i]) = 1
            /\ HasBlock(full.frames, LoadUnit(kind, last.files[i]))

(***************************************************************************)
(* Two writers.                                                            *)
(***************************************************************************)
RECURSIVE SumFrames(_)
SumFrames(S) ==
  IF S = {} THEN 0
  ELSE LET n == CHOOSE x \in S : TRUE IN NFrames(n) + SumFrames(S \ {n})

\* C18. Unguarded concurrent writers: the contains check is all that keeps
\* a unit from being merged again, and it does not hold back a second
\* writer that checks before the first has appended the row.  An
\* identifier is ledgered at most once by each of the writers, so up to
\* twice here, and when no run was interrupted or failed the store holds as
\* many frames as its ledger rows account for, duplicates included (the
\* witness is a state where a unit is ledgered twice and its frames are in
\* the store twice, interleaved).
C18_UnguardedWriters ==
  /\ \A n \in UnitNums : Occurrences(FullLedger, UnitId(kind, n)) <= Cardinality(Writers)
  /\ (Quiet /\ nfault = 0) => Len(full.frames) = Len(Blocks(FullLedger))

\* Without any interruption or failure, both runs have returned and a unit
\* is ledgered twice, with more frames in the store than the units hold.
C18_Witness ==
  /\ Quiet
  /\ nfault = 0
  /\ \E n \in avail : Occurrences(FullLedger, UnitId(kind, n)) = 2
  /\ Len(full.frames) > SumFrames(avail)
  /\ ~WholeBlocks(full.frames)

(***************************************************************************)
(* Initialisation of a store and the name of its ledger.                   *)
(***************************************************************************)
HasLedger(store) == \E name \in DOMAIN store.nodes : TRUE

\* C19. Initialise once: an operation on a store that already has its
\* ledger container does not raise NodeError and leaves the rows and the
\* topology that the store had; and whenever no operation is in progress,
\* after interrupted operations too, a store that has a ledger container
\* has its topology set.
C19_InitialiseOnce ==
  /\ (AtEnd("merge") /\ HasLedger(last.preFull))
       => /\ last.err # "NodeError"
          /\ IsPrefix(Ledger(last.preFull, LedgerName(kind)), FullLedger)
          /\ full.top = last.preFull.top
  /\ (AtEnd("strip") /\ HasLedger(last.preDer))
       => /\ last.err # "NodeError"
          /\ IsPrefix(Ledger(last.preDer, LedgerName(kind)), DerivedLedger)
          /\ derived.top = last.preDer.top
  /\ Quiet => /\ HasLedger(full) => full.top # <<>>
              /\ HasLedger(derived) => derived.top # <<>>

\* C20. Adapter/derivation compatibility: strip_water on a store that a
\* merge operation produced in runs that all returned, with at least
\* min_num_frames frames, does not raise "Can't find processed files".
C20_LedgerNameRecognised ==
  (AtEnd("strip") /\ nfault = 0) => last.err # "ValueError_nokey"

====
